---- MODULE Spec2Model ----
(***************************************************************************)
(* Model of scripts/update_discover.py: the relative-time normalizer, the  *)
(* in-page extractor, the per-topic fetch loop, the record builder and     *)
(* main, which aggregates the three topics and writes the cache file.      *)
(*                                                                         *)
(* Text is a sequence of one-character strings, so that strip, lower and   *)
(* the regular-expression search are computed character by character.      *)
(* A datetime is [ord, sec, us]: proleptic Gregorian day ordinal           *)
(* (0001-01-01 = 1), second of the day, microsecond.                       *)
(***************************************************************************)
EXTENDS Integers, Sequences, FiniteSets, TLC

VARIABLES
    pc,          \* position of main (or of a pure-function harness)
    now,         \* what datetime.now(timezone.utc) returns; the calls of one
                 \* build_stories (its own and parse_relative_time's) read
                 \* the same instant
    parts,       \* the pieces the argument of parse_relative_time is made of
    text,        \* parse_relative_time: the argument
    parsed,      \* parse_relative_time: the outcome
    ti,          \* main: index in topics of the topic being processed
    all_stories, \* main: the aggregated story list
    stories,     \* main: the list build_stories returned last
    cache,       \* the file perplexity_cache.json
    prior,       \* the file as it was when the run started
    exitCode,    \* the exit status of the process (-1 while it runs)
    fpc,         \* fetch_topic: position inside the attempt
    attempt,     \* fetch_topic: the loop variable
    dom,         \* the anchors of the document the page shows
    raw,         \* fetch_topic: raw, and at return the value returned
    lastWait,    \* the argument of the latest page.wait_for_timeout call
    navs         \* fetch_topic: page.goto calls made in this call

timeVars == <<parts, text, parsed>>

mainVars == <<ti, all_stories, stories, cache, prior, exitCode>>

fetchVars == <<fpc, attempt, dom, raw, lastWait, navs>>

vars == <<pc, now, parts, text, parsed, ti, all_stories, stories, cache, prior,
          exitCode, fpc, attempt, dom, raw, lastWait, navs>>

----------------------------------------------------------------------------
(* Characters and strings                                                  *)

Digit == {"0", "1", "2", "3", "4", "5", "6", "7", "8", "9"}

Space == {" ", "\t", "\n"}

DigitVal(c) ==
    CASE c = "0" -> 0 [] c = "1" -> 1 [] c = "2" -> 2 [] c = "3" -> 3
      [] c = "4" -> 4 [] c = "5" -> 5 [] c = "6" -> 6 [] c = "7" -> 7
      [] c = "8" -> 8 [] c = "9" -> 9

\* str.lower() on one character (the upper-case letters the inputs use)
LowerChar(c) ==
    CASE c = "A" -> "a" [] c = "D" -> "d" [] c = "E" -> "e" [] c = "G" -> "g"
      [] c = "H" -> "h" [] c = "I" -> "i" [] c = "K" -> "k" [] c = "M" -> "m"
      [] c = "N" -> "n" [] c = "O" -> "o" [] c = "R" -> "r" [] c = "S" -> "s"
      [] c = "T" -> "t" [] c = "U" -> "u" [] c = "W" -> "w" [] c = "Y" -> "y"
      [] OTHER -> c

Lower(s) == [i \in 1..Len(s) |-> LowerChar(s[i])]

\* str.strip(): drop the leading and the trailing white space
Strip(s) ==
    LET keep == {i \in 1..Len(s) : s[i] \notin Space}
    IN  IF keep = {} THEN <<>>
        ELSE LET lo == CHOOSE i \in keep : \A j \in keep : i <= j
                 hi == CHOOSE i \in keep : \A j \in keep : j <= i
             IN  SubSeq(s, lo, hi)

\* s[k..] starts with the word w
HasPrefixAt(s, k, w) ==
    /\ k + Len(w) - 1 <= Len(s)
    /\ \A i \in 1..Len(w) : s[k + i - 1] = w[i]

\* first position >= k whose character is not in the class (Len(s)+1 if none)
RunEnd(s, k, class) ==
    LET stop == {i \in k..Len(s) : s[i] \notin class}
    IN  IF stop = {} THEN Len(s) + 1
        ELSE CHOOSE i \in stop : \A j \in stop : i <= j

RECURSIVE IntOf(_)
\* int() of a string of decimal digits
IntOf(ds) ==
    IF ds = <<>> THEN 0
    ELSE 10 * IntOf(SubSeq(ds, 1, Len(ds) - 1)) + DigitVal(ds[Len(ds)])

----------------------------------------------------------------------------
(* parse_relative_time                                                     *)

\* the alternation (minute|min|hour|hr|day|week|month), in its order
UnitWords ==
    << <<"m","i","n","u","t","e">>, <<"m","i","n">>,
       <<"h","o","u","r">>,         <<"h","r">>,
       <<"d","a","y">>,             <<"w","e","e","k">>,
       <<"m","o","n","t","h">> >>

\* the name the code compares m.group(2) with
UnitName(i) ==
    CASE i = 1 -> "minute" [] i = 2 -> "min" [] i = 3 -> "hour"
      [] i = 4 -> "hr" [] i = 5 -> "day" [] i = 6 -> "week" [] i = 7 -> "month"

\* A match of (\d+)\s*(unit) starting at i.  \d+ and \s* are greedy; giving
\* back a digit or a blank never helps, because the character that follows
\* would be a digit or a blank and no unit word starts with one.
MatchAt(s, i) ==
    IF i > Len(s) \/ s[i] \notin Digit THEN [ok |-> FALSE]
    ELSE LET j == RunEnd(s, i, Digit)
             k == RunEnd(s, j, Space)
             alts == {u \in 1..Len(UnitWords) : HasPrefixAt(s, k, UnitWords[u])}
         IN  IF alts = {} THEN [ok |-> FALSE]
             ELSE [ok   |-> TRUE,
                   val  |-> IntOf(SubSeq(s, i, j - 1)),
                   unit |-> UnitName(CHOOSE u \in alts : \A v \in alts : u <= v)]

\* re.search: the match with the leftmost start
ReSearch(s) ==
    LET starts == {i \in 1..Len(s) : MatchAt(s, i).ok}
    IN  IF starts = {} THEN [ok |-> FALSE]
        ELSE MatchAt(s, CHOOSE i \in starts : \A j \in starts : i <= j)

\* timedelta(minutes|hours|days|weeks = val), normalised to days and seconds
TimedeltaOf(unit, val) ==
    CASE unit \in {"minute", "min"} ->
            [days |-> val \div 1440, secs |-> (val % 1440) * 60]
      [] unit \in {"hour", "hr"} ->
            [days |-> val \div 24, secs |-> (val % 24) * 3600]
      [] unit = "day"   -> [days |-> val, secs |-> 0]
      [] unit = "week"  -> [days |-> val * 7, secs |-> 0]
      [] unit = "month" -> [days |-> val * 30, secs |-> 0]

\* datetime - timedelta; OverflowError when the timedelta exceeds 999999999
\* days or the result is earlier than 0001-01-01
DatetimeMinus(dt, td) ==
    LET borrow == IF dt.sec < td.secs THEN 1 ELSE 0
        ord    == dt.ord - td.days - borrow
        sec    == dt.sec - td.secs + borrow * 86400
    IN  IF td.days > 999999999 \/ ord < 1
        THEN [ok |-> FALSE]
        ELSE [ok |-> TRUE, dt |-> [ord |-> ord, sec |-> sec, us |-> dt.us]]

\* strftime("%Y-%m-%dT%H:%M:%SZ"): the civil date and time of day, the
\* microseconds dropped; the text is represented by its six numeric fields
Strftime(dt) ==
    LET z   == dt.ord + 305
        era == z \div 146097
        doe == z - era * 146097
        yoe == (doe - doe \div 1460 + doe \div 36524 - doe \div 146096) \div 365
        doy == doe - (365 * yoe + yoe \div 4 - yoe \div 100)
        mp  == (5 * doy + 2) \div 153
        d   == doy - (153 * mp + 2) \div 5 + 1
        m   == IF mp < 10 THEN mp + 3 ELSE mp - 9
        y   == yoe + era * 400 + (IF m <= 2 THEN 1 ELSE 0)
    IN  <<y, m, d, dt.sec \div 3600, (dt.sec % 3600) \div 60, dt.sec % 60>>

\* The outcome is None, a formatted timestamp, or a raised OverflowError.
parse_relative_time(txt, at) ==
    IF txt = <<>> THEN [kind |-> "none"]
    ELSE LET m == ReSearch(Lower(Strip(txt)))
         IN  IF ~m.ok THEN [kind |-> "none"]
             ELSE LET r == DatetimeMinus(at, TimedeltaOf(m.unit, m.val))
                  IN  IF r.ok THEN [kind |-> "ts", ts |-> Strftime(r.dt)]
                      ELSE [kind |-> "raise"]

----------------------------------------------------------------------------
(* Link targets.  An href is a sequence of tokens: an origin, the path     *)
(* pieces "/discover/" and "/", a topic name, a slug, or a blank.          *)

Origin == "https://www.perplexity.ai"

OtherOrigin == "https://example.com"

topics == <<"top", "tech", "finance">>

\* href.startswith("http")
StartsWithHttp(h) == h # <<>> /\ h[1] \in {Origin, OtherOrigin}

\* the attribute selector a[href*="..."]: the pattern occurs in the href
Contains(h, pat) == \E k \in 1..Len(h) : HasPrefixAt(h, k, pat)

\* a[href*="/discover/<topic>/"]
MatchesA(h, topic) == Contains(h, <<"/discover/", topic, "/">>)

\* a[href*="/discover/"]
MatchesB(h) == Contains(h, <<"/discover/">>)

----------------------------------------------------------------------------
(* The in-page extraction.  A DOM is the sequence of its anchors in        *)
(* document order; an anchor carries what the queries on its card find:    *)
(* hasHeading/heading (h1..h4), linkText, source, timeAttr (the datetime   *)
(* attribute), timeInner (the time element's text), count.                 *)

\* heading ? heading.innerText.trim() : link.innerText.trim()
TitleOfAnchor(a) == IF a.hasHeading THEN Strip(a.heading) ELSE Strip(a.linkText)

\* timeEl ? (timeEl.getAttribute('datetime') || timeEl.innerText.trim()) : ''
TimeTextOfAnchor(a) == IF a.timeAttr # <<>> THEN a.timeAttr ELSE Strip(a.timeInner)

RECURSIVE Collect(_, _, _, _)
\* the loop over the selected links: skip an href already seen, skip an
\* empty title, push {title, href, source, timeText, sourceCount}; a selected
\* link has an href attribute, so `if (!href) continue` never applies
Collect(links, i, seen, withSource) ==
    IF i > Len(links) THEN <<>>
    ELSE LET a == links[i]
         IN  IF a.href \in seen THEN Collect(links, i + 1, seen, withSource)
             ELSE IF TitleOfAnchor(a) = <<>>
                  THEN Collect(links, i + 1, seen \cup {a.href}, withSource)
                  ELSE << [title       |-> TitleOfAnchor(a),
                           href        |-> a.href,
                           source      |-> IF withSource THEN Strip(a.source) ELSE <<>>,
                           timeText    |-> TimeTextOfAnchor(a),
                           sourceCount |-> Strip(a.count)] >>
                       \o Collect(links, i + 1, seen \cup {a.href}, withSource)

SelectA(d, topic) == SelectSeq(d, LAMBDA a : MatchesA(a.href, topic))

SelectB(d) == SelectSeq(d, LAMBDA a : MatchesB(a.href))

\* a variant that walks every discover link, topic-scoped or not
LinksOf_Merged(d, topic) == SelectB(d)

\* which links JS_EXTRACT walks: the topic-scoped ones, else all discover links
LinksOf(d, topic) ==
    IF Len(SelectA(d, topic)) = 0 THEN SelectB(d) ELSE SelectA(d, topic)

JS_EXTRACT(d, topic) == Collect(LinksOf(d, topic), 1, {}, TRUE)

\* the inline script fetch_topic evaluates when JS_EXTRACT returned nothing
JS_FALLBACK(d) == Collect(SelectB(d), 1, {}, FALSE)

\* what one attempt of fetch_topic holds in raw after both evaluations
ExtractOnce(d, topic) ==
    IF JS_EXTRACT(d, topic) = <<>> THEN JS_FALLBACK(d) ELSE JS_EXTRACT(d, topic)

----------------------------------------------------------------------------
(* build_stories                                                           *)

limit == 20

StaggerMinutes == 5

\* raw_items[:limit]
Truncate(items, n) == SubSeq(items, 1, IF Len(items) < n THEN Len(items) ELSE n)

\* a variant that adds the stagger to the instant instead of subtracting it
PubDateOf_Forward(item, idx, at) ==
    LET p   == parse_relative_time(item.timeText, at)
        sec == at.sec + idx * StaggerMinutes * 60
    IN  IF p.kind # "none" THEN p
        ELSE [kind |-> "ts",
              ts   |-> Strftime([ord |-> at.ord + sec \div 86400,
                                 sec |-> sec % 86400, us |-> at.us])]

\* pub_date of the item at zero-based position idx of the truncated list:
\* what parse_relative_time returns and, `if not pub_date`, the staggered
\* fallback; "raise" when parse_relative_time raises
PubDateOf(item, idx, at) ==
    LET p == parse_relative_time(item.timeText, at)
    IN  IF p.kind = "raise" THEN p
        ELSE IF p.kind = "ts" THEN p
        ELSE [kind |-> "ts",
              ts   |-> Strftime(DatetimeMinus(at,
                          TimedeltaOf("minute", idx * StaggerMinutes)).dt)]

\* a variant that tests the fields before strip()
Skipped_NoStrip(item) == item.title = <<>> \/ item.href = <<>>

\* the item is skipped: not title or not href, after strip()
Skipped(item) == Strip(item.title) = <<>> \/ Strip(item.href) = <<>>

UrlOf(item) ==
    IF StartsWithHttp(Strip(item.href)) THEN Strip(item.href)
    ELSE <<Origin>> \o Strip(item.href)

StoryOf(item, idx, at) ==
    [title       |-> Strip(item.title),
     url         |-> UrlOf(item),
     source      |-> Strip(item.source),
     pubDate     |-> PubDateOf(item, idx, at),
     sourceCount |-> Strip(item.sourceCount)]

RECURSIVE BuildFrom(_, _, _)
\* the loop of build_stories from position i (one-based) of the truncated list
BuildFrom(items, i, at) ==
    IF i > Len(items) THEN <<>>
    ELSE IF Skipped(items[i]) THEN BuildFrom(items, i + 1, at)
    ELSE <<StoryOf(items[i], i - 1, at)>> \o BuildFrom(items, i + 1, at)

\* build_stories raises when parse_relative_time raises on an item it keeps
BuildRaises(items, at) ==
    \E i \in 1..Len(items) :
        /\ ~Skipped(items[i])
        /\ parse_relative_time(items[i].timeText, at).kind = "raise"

build_stories(raw_items, topic, at) ==
    LET items == Truncate(raw_items, limit)
    IN  IF BuildRaises(items, at) THEN [ok |-> FALSE]
        ELSE [ok |-> TRUE, stories |-> BuildFrom(items, 1, at)]

----------------------------------------------------------------------------
(* Inputs of the normalizer: prefix, magnitude, separator, word, suffix    *)

Prefixes == { <<>>, <<" ">>, <<"3", ".">>, <<"i", "n", " ">> }

Magnitudes ==
    { <<>>, <<"1">>, <<"5">>, <<"1", "2">>, <<"9", "0">>,
      <<"9", "9", "9", "9", "9", "9">> }

Separators == { <<>>, <<" ">> }

SupportedWords ==
    { <<"m","i","n","u","t","e">>, <<"m","i","n">>, <<"h","o","u","r">>,
      <<"h","r">>, <<"d","a","y">>, <<"w","e","e","k">>,
      <<"m","o","n","t","h">> }

Words ==
    SupportedWords \cup
    { <<"H","O","U","R">>, <<"M","i","n">>, <<"D","a","y">>,
      <<"W","E","E","K">>,
      <<>>, <<"m">>, <<"h">>, <<"y","e","a","r">>,
      <<"s","e","c","o","n","d">>,
      <<"y","e","s","t","e","r","d","a","y">> }

Suffixes ==
    { <<>>, <<"s">>, <<" ","a","g","o">>, <<"s"," ","a","g","o">>,
      <<"S"," ","A","G","O">> }

Nows ==
    { [ord |-> 739922, sec |-> 125,   us |-> 500000],    \* 2026-11-02 00:02:05.5
      [ord |-> 738946, sec |-> 45296, us |-> 0] }        \* 2024-03-01 12:34:56

\* the clock reading of the modelled run of main
RunNow == [ord |-> 739922, sec |-> 125, us |-> 500000]

NoParts == [pre |-> <<>>, mag |-> <<>>, sep |-> <<>>, word |-> <<>>, suf |-> <<>>]

TextOf(p) == p.pre \o p.mag \o p.sep \o p.word \o p.suf

Unset == [kind |-> "unset"]

----------------------------------------------------------------------------
(* Documents the feed can serve                                            *)

LongTitle == <<"F","e","d"," ","h","o","l","d","s"," ","r","a","t","e","s">>

PaddedTitle == <<" ">> \o LongTitle \o <<" ", "\n">>

ShortTitle == <<"M","a","r","k","e","t","s">>

BlankTitle == <<" ", " ">>

TwoHoursAgo == <<"2"," ","h","o","u","r","s"," ","a","g","o">>

Yesterday == <<"y","e","s","t","e","r","d","a","y">>

FarWeeksAgo ==
    <<"9","9","9","9","9","9"," ","w","e","e","k","s"," ","a","g","o">>

SlugNames == << "s01", "s02", "s03", "s04", "s05", "s06", "s07", "s08", "s09", "s10", "s11", "s12", "s13", "s14", "s15", "s16", "s17", "s18", "s19", "s20", "s21", "s22", "s23", "s24", "s25" >>

Slug(i) == SlugNames[((i - 1) % Len(SlugNames)) + 1]

\* /discover/<topic>/<slug>
TopicHref(topic, i) == <<"/discover/", topic, "/", Slug(i)>>

\* /discover/<slug>
PlainHref(i) == <<"/discover/", Slug(i)>>

\* an anchor whose card has a heading
Headed(href, heading, timeInner) ==
    [href |-> href, hasHeading |-> TRUE, heading |-> heading,
     linkText |-> ShortTitle, source |-> <<"A", "P">>, timeAttr |-> <<>>,
     timeInner |-> timeInner, count |-> <<"1", "2">>]

\* an anchor whose card has no heading: the title is the link's own text
Bare(href, linkText, timeInner) ==
    [href |-> href, hasHeading |-> FALSE, heading |-> <<>>,
     linkText |-> linkText, source |-> <<>>, timeAttr |-> <<>>,
     timeInner |-> timeInner, count |-> <<>>]

\* n story anchors of the topic, none with a time text
PBig(topic, n) == [i \in 1..n |-> Headed(TopicHref(topic, i), LongTitle, <<>>)]

\* a topic-scoped anchor without a title, then a story linked as /discover/<slug>
PFallback(topic) ==
    << Headed(TopicHref(topic, 1), BlankTitle, <<>>),
       Bare(PlainHref(2), PaddedTitle, TwoHoursAgo) >>

\* a story, the same href again, the same target as an absolute URL with a
\* short title, and a story whose time text is not a relative time
PMixed(topic) ==
    << Headed(TopicHref(topic, 1), LongTitle, TwoHoursAgo),
       Bare(TopicHref(topic, 1), LongTitle, <<>>),
       Bare(<<Origin>> \o TopicHref(topic, 1), ShortTitle, <<>>),
       Headed(TopicHref(topic, 2), PaddedTitle, Yesterday) >>

\* a story whose relative time reaches before year 1
POverflow(topic) == << Headed(TopicHref(topic, 1), LongTitle, FarWeeksAgo) >>

SmallBatch == 9

MediumBatch == 10

LargeBatch == 22

Pages(topic) ==
    { <<>>, PFallback(topic), PMixed(topic), POverflow(topic),
      PBig(topic, SmallBatch), PBig(topic, MediumBatch), PBig(topic, LargeBatch) }

----------------------------------------------------------------------------
(* The cache file                                                          *)

Absent == [present |-> FALSE]

FileOf(body) == [present |-> TRUE, body |-> body]

\* a record as a run of the script wrote it
PriorStory(i, at) ==
    [title |-> LongTitle, url |-> <<Origin>> \o PlainHref(i), source |-> <<>>,
     pubDate |-> [kind |-> "ts", ts |-> Strftime(at)], sourceCount |-> <<>>]

PriorOfSize(p, at) == FileOf([stories |-> [i \in 1..p |-> PriorStory(i, at)]])

SmallPrior == 3

LargePrior == 100

Priors(at) == { Absent, PriorOfSize(SmallPrior, at), PriorOfSize(LargePrior, at) }

----------------------------------------------------------------------------
(* Idle values of the parts a specification does not use                   *)

IdleTime == parts = NoParts /\ text = <<>> /\ parsed = Unset

IdleMain ==
    /\ all_stories = <<>>
    /\ stories = <<>>
    /\ cache = Absent
    /\ prior = Absent
    /\ exitCode = -1

IdleFetch ==
    /\ fpc = "idle"
    /\ attempt = 0
    /\ dom = <<>>
    /\ raw = <<>>
    /\ lastWait = 0
    /\ navs = 0

----------------------------------------------------------------------------
(* The normalizer applied to one text                                      *)

InitTime ==
    /\ pc = "time_in"
    /\ now \in Nows
    /\ parts \in [pre : Prefixes, mag : Magnitudes, sep : Separators,
                  word : Words, suf : Suffixes]
    /\ text = TextOf(parts)
    /\ parsed = Unset
    /\ ti = 1
    /\ IdleMain
    /\ IdleFetch

ParseTime ==
    /\ pc = "time_in"
    /\ parsed' = parse_relative_time(text, now)
    /\ pc' = "time_out"
    /\ UNCHANGED <<now, parts, text, mainVars, fetchVars>>

NextTime == ParseTime

SpecTime == InitTime /\ [][NextTime]_vars

----------------------------------------------------------------------------
(* The extraction of one attempt applied to one document                   *)

MaxAnchors == 3

AnchorKinds ==
    { Headed(TopicHref("tech", 1), LongTitle, TwoHoursAgo),
      Headed(TopicHref("tech", 1), BlankTitle, <<>>),
      Bare(TopicHref("tech", 2), PaddedTitle, <<>>),
      Bare(TopicHref("tech", 2), <<>>, <<>>),
      Bare(PlainHref(3), LongTitle, Yesterday),
      Bare(PlainHref(4), ShortTitle, <<>>),
      Bare(<<Origin>> \o TopicHref("tech", 1), LongTitle, <<>>),
      Bare(<<"/page/", Slug(5)>>, LongTitle, <<>>) }

SeqsUpTo(S, n) == UNION { [1..k -> S] : k \in 0..n }

InitExtract ==
    /\ pc = "extract_in"
    /\ now = RunNow
    /\ IdleTime
    /\ IdleMain
    /\ ti \in 1..Len(topics)
    /\ dom \in SeqsUpTo(AnchorKinds, MaxAnchors)
    /\ fpc = "idle" /\ attempt = 0 /\ raw = <<>> /\ lastWait = 0 /\ navs = 0

ExtractPage ==
    /\ pc = "extract_in"
    /\ raw' = ExtractOnce(dom, topics[ti])
    /\ pc' = "extract_out"
    /\ UNCHANGED <<now, timeVars, mainVars, fpc, attempt, dom, lastWait, navs>>

NextExtract == ExtractPage

SpecExtract == InitExtract /\ [][NextExtract]_vars

----------------------------------------------------------------------------
(* build_stories applied to one raw candidate list                         *)

MaxRaw == 3

Item(title, href, timeText) ==
    [title |-> title, href |-> href, source |-> <<" ", "A", "P">>,
     timeText |-> timeText, sourceCount |-> <<"1", "2">>]

ItemKinds ==
    { Item(LongTitle, TopicHref("tech", 1), TwoHoursAgo),
      Item(PaddedTitle, TopicHref("tech", 2), Yesterday),
      Item(ShortTitle, <<Origin>> \o TopicHref("tech", 3), <<>>),
      Item(<<>>, TopicHref("tech", 4), <<>>),
      Item(BlankTitle, TopicHref("tech", 5), TwoHoursAgo),
      Item(LongTitle, <<>>, <<>>),
      Item(LongTitle, <<" ">>, Yesterday),
      Item(LongTitle, TopicHref("tech", 6), FarWeeksAgo) }

\* n items that are kept, none with a time text
PadItems(n) == [i \in 1..n |-> Item(LongTitle, TopicHref("tech", 6 + i), <<>>)]

\* short lists, and lists that straddle the cap: one item or none, limit - 2
\* kept items, then up to MaxRaw - 1 items
RawLists ==
    SeqsUpTo(ItemKinds, MaxRaw) \cup
    { s \o PadItems(limit - 2) \o t :
        s \in SeqsUpTo(ItemKinds, 1), t \in SeqsUpTo(ItemKinds, MaxRaw - 1) }

InitBuild ==
    /\ pc = "build_in"
    /\ now \in Nows
    /\ IdleTime
    /\ ti = 1
    /\ IdleMain
    /\ raw \in RawLists
    /\ fpc = "idle" /\ attempt = 0 /\ dom = <<>> /\ lastWait = 0 /\ navs = 0

BuildList ==
    /\ pc = "build_in"
    /\ LET r == build_stories(raw, topics[ti], now)
       IN  IF r.ok
           THEN stories' = r.stories /\ pc' = "build_out"
           ELSE stories' = stories /\ pc' = "build_raised"
    /\ UNCHANGED <<now, timeVars, ti, all_stories, cache, prior, exitCode, fetchVars>>

NextBuild == BuildList

SpecBuild == InitBuild /\ [][NextBuild]_vars

----------------------------------------------------------------------------
(* fetch_topic and main                                                    *)

max_retries == 3

topic == topics[ti]

\* entry of fetch_topic: the first iteration of the attempt loop
EnterFetch ==
    /\ fpc' = "goto"
    /\ attempt' = 1
    /\ navs' = 0
    /\ raw' = <<>>

\* return of fetch_topic with the value r: main goes on to build_stories
ReturnFetch(r) ==
    /\ raw' = r
    /\ fpc' = "idle"
    /\ pc' = "build"

\* a variant that does not grow with the attempt
BackoffMs_Flat(k) == 3000

\* attempt * 3000, the argument of both backoff waits
BackoffMs(k) == k * 3000

\* a variant whose loop runs once more
NextAttempt_OneMore ==
    IF attempt <= max_retries
    THEN /\ attempt' = attempt + 1
         /\ fpc' = "goto"
         /\ UNCHANGED <<pc, raw>>
    ELSE /\ ReturnFetch(<<>>)
         /\ UNCHANGED attempt

\* the end of one iteration without a result: the next iteration, or the
\* fall out of the loop to `return []`
NextAttempt ==
    IF attempt < max_retries
    THEN /\ attempt' = attempt + 1
         /\ fpc' = "goto"
         /\ UNCHANGED <<pc, raw>>
    ELSE /\ ReturnFetch(<<>>)
         /\ UNCHANGED attempt

\* an uncaught exception leaves main: the interpreter exits with status 1
Crash ==
    /\ pc' = "crashed"
    /\ exitCode' = 1

\* sync_playwright(), chromium.launch, new_context, new_page
Launch ==
    /\ pc = "launch"
    /\ \/ /\ pc' = "fetch"
          /\ EnterFetch
          /\ UNCHANGED <<exitCode, dom, lastWait>>
       \/ /\ Crash
          /\ UNCHANGED fetchVars
    /\ UNCHANGED <<now, timeVars, ti, all_stories, stories, cache, prior>>

\* page.goto(url, ...): the document is replaced, or the call raises
Goto ==
    /\ pc = "fetch" /\ fpc = "goto"
    /\ navs' = navs + 1
    /\ \/ /\ dom' \in Pages(topic)
          /\ fpc' = "wait"
       \/ /\ dom' = <<>>
          /\ fpc' = "except"
    /\ UNCHANGED <<pc, now, timeVars, mainVars, attempt, raw, lastWait>>

\* page.wait_for_timeout(2500)
WaitContent ==
    /\ pc = "fetch" /\ fpc = "wait"
    /\ lastWait' = 2500
    /\ fpc' \in {"scroll", "except"}
    /\ UNCHANGED <<pc, now, timeVars, mainVars, attempt, dom, raw, navs>>

\* scroll_and_wait(page, scrolls=3, delay=700): three scrollBy evaluations
\* each followed by a wait of 700, scrollTo, a wait of 300; any call may raise
ScrollAndWait ==
    /\ pc = "fetch" /\ fpc = "scroll"
    /\ \/ /\ lastWait' = 300
          /\ fpc' = "extract"
       \/ /\ lastWait' \in {lastWait, 700, 300}
          /\ fpc' = "except"
    /\ UNCHANGED <<pc, now, timeVars, mainVars, attempt, dom, raw, navs>>

\* raw = page.evaluate(JS_EXTRACT, topic); `if not raw` leads to the fallback
Extract ==
    /\ pc = "fetch" /\ fpc = "extract"
    /\ \/ IF JS_EXTRACT(dom, topic) # <<>>
          THEN ReturnFetch(JS_EXTRACT(dom, topic))
          ELSE raw' = <<>> /\ fpc' = "fallback" /\ UNCHANGED pc
       \/ /\ fpc' = "except"
          /\ UNCHANGED <<pc, raw>>
    /\ UNCHANGED <<now, timeVars, mainVars, attempt, dom, lastWait, navs>>

\* raw = page.evaluate(<the broader script>); `if raw: return raw`
Fallback ==
    /\ pc = "fetch" /\ fpc = "fallback"
    /\ \/ IF JS_FALLBACK(dom) # <<>>
          THEN ReturnFetch(JS_FALLBACK(dom))
          ELSE raw' = <<>> /\ fpc' = "backoff" /\ UNCHANGED pc
       \/ /\ fpc' = "except"
          /\ UNCHANGED <<pc, raw>>
    /\ UNCHANGED <<now, timeVars, mainVars, attempt, dom, lastWait, navs>>

\* wait_ms = attempt * 3000; page.wait_for_timeout(wait_ms), inside the try
Backoff ==
    /\ pc = "fetch" /\ fpc = "backoff"
    /\ lastWait' = BackoffMs(attempt)
    /\ \/ NextAttempt
       \/ /\ fpc' = "except"
          /\ UNCHANGED <<pc, attempt, raw>>
    /\ UNCHANGED <<now, timeVars, mainVars, dom, navs>>

\* except Exception: if attempt < max_retries, page.wait_for_timeout(attempt *
\* 3000); that call is outside any try, so what it raises leaves fetch_topic
Except ==
    /\ pc = "fetch" /\ fpc = "except"
    /\ IF attempt < max_retries
       THEN /\ lastWait' = BackoffMs(attempt)
            /\ \/ /\ NextAttempt
                  /\ UNCHANGED exitCode
               \/ /\ Crash
                  /\ UNCHANGED <<fpc, attempt, raw>>
       ELSE /\ NextAttempt
            /\ UNCHANGED <<lastWait, exitCode>>
    /\ UNCHANGED <<now, timeVars, ti, all_stories, stories, cache, prior, dom, navs>>

\* stories = build_stories(raw, topic, limit=20); all_stories.extend(stories);
\* then the next topic, or the end of the loop
Build ==
    /\ pc = "build"
    /\ LET r == build_stories(raw, topic, now)
       IN  IF r.ok
           THEN /\ stories' = r.stories
                /\ all_stories' = all_stories \o r.stories
                /\ IF ti < Len(topics)
                   THEN /\ ti' = ti + 1
                        /\ pc' = "fetch"
                        /\ EnterFetch
                   ELSE /\ pc' = "close"
                        /\ UNCHANGED <<ti, fpc, attempt, raw, navs>>
                /\ UNCHANGED exitCode
           ELSE /\ Crash
                /\ UNCHANGED <<ti, all_stories, stories, fpc, attempt, raw, navs>>
    /\ UNCHANGED <<now, timeVars, cache, prior, dom, lastWait>>

\* browser.close(), and leaving the `with` block
Close ==
    /\ pc = "close"
    /\ \/ pc' = "write" /\ UNCHANGED exitCode
       \/ Crash
    /\ UNCHANGED <<now, timeVars, ti, all_stories, stories, cache, prior, fetchVars>>

\* out_path.write_text(json.dumps({"stories": all_stories}, ...)); the final
\* print; the script ends and the process exits with status 0
Write ==
    /\ pc = "write"
    /\ cache' = FileOf([stories |-> all_stories])
    /\ pc' = "done"
    /\ exitCode' = 0
    /\ UNCHANGED <<now, timeVars, ti, all_stories, stories, prior, fetchVars>>

Init ==
    /\ pc = "launch"
    /\ now = RunNow
    /\ IdleTime
    /\ ti = 1
    /\ all_stories = <<>>
    /\ stories = <<>>
    /\ prior \in Priors(now)
    /\ cache = prior
    /\ exitCode = -1
    /\ IdleFetch

Next ==
    \/ Launch
    \/ Goto
    \/ WaitContent
    \/ ScrollAndWait
    \/ Extract
    \/ Fallback
    \/ Backoff
    \/ Except
    \/ Build
    \/ Close
    \/ Write

Spec == Init /\ [][Next]_vars

\* the run under the scheduling of a sequential script: every call returns
\* or raises, so a step that can be taken is taken
FairSpec == Spec /\ WF_vars(Next)

----------------------------------------------------------------------------
(* Properties: the cache reconciliation                                    *)

Finished == pc = "done"

NewCount == Len(all_stories)

PriorCount == IF prior.present THEN Len(prior.body.stories) ELSE 0

\* the rejection rules: empty, below the minimum of 30, less than half
Rejected ==
    \/ NewCount = 0
    \/ NewCount < 30
    \/ prior.present /\ 2 * NewCount < PriorCount

Replaced == cache.present /\ cache.body.stories = all_stories

\* C1: a run whose aggregated list triggers a rejection rule (empty, fewer
\* than 30 stories, fewer than half of the prior cache's stories) leaves the
\* cache file as it was when the run started.
C1_RejectionKeepsCache == (Finished /\ Rejected) => cache = prior

\* C2: a run that ends exits with status 1 exactly when the aggregated list
\* is empty and there was no prior cache, and with status 0 otherwise.
C2_ExitCode ==
    Finished => (exitCode = 1 <=> (NewCount = 0 /\ ~prior.present))

\* C3: where the shrinkage rule does not apply, a batch of 29 stories is
\* rejected (the cache is not written) and a batch of 30 replaces the cache.
C3_MinimumGate ==
    (Finished /\ ~(prior.present /\ 2 * NewCount < PriorCount)) =>
        /\ NewCount = 29 => cache = prior
        /\ NewCount = 30 => Replaced

\* C4: with a prior cache of p stories, a batch of n >= 30 stories is
\* rejected (cache unchanged) exactly when 2*n < p and replaces the cache
\* otherwise.
C4_ShrinkageGate ==
    (Finished /\ prior.present /\ NewCount >= 30) =>
        IF 2 * NewCount < PriorCount THEN cache = prior ELSE Replaced

----------------------------------------------------------------------------
(* Properties: the fetch loop                                              *)

\* C5: whatever fails while a topic is fetched, fetch_topic does not let an
\* exception reach main: the run never dies inside fetch_topic.
C5_TopicIsolation == ~(pc = "crashed" /\ fpc = "except")

----------------------------------------------------------------------------
(* Properties: the normalizer                                              *)

\* the text is "n u", u a supported unit in any case, singular or plural,
\* with or without "ago", n >= 1
WellFormed ==
    /\ parts.pre = <<>>
    /\ parts.mag # <<>>
    /\ IntOf(parts.mag) >= 1
    /\ Lower(parts.word) \in SupportedWords

DurationSeconds(w) ==
    CASE w \in { <<"m","i","n","u","t","e">>, <<"m","i","n">> } -> 60
      [] w \in { <<"h","o","u","r">>, <<"h","r">> } -> 3600
      [] w = <<"d","a","y">> -> 86400
      [] w = <<"w","e","e","k">> -> 604800
      [] w = <<"m","o","n","t","h">> -> 2592000

\* the stamp of `at` minus n * dur seconds (dur a multiple of 60)
StampBefore(at, n, dur) ==
    LET back == n * (dur \div 60)
        rest == at.sec - (back % 1440) * 60
    IN  IF rest >= 0
        THEN Strftime([ord |-> at.ord - back \div 1440, sec |-> rest, us |-> 0])
        ELSE Strftime([ord |-> at.ord - back \div 1440 - 1,
                       sec |-> rest + 86400, us |-> 0])

\* C6: for a supported unit u and an integer n >= 1 the normalizer returns
\* the timestamp of now - n * duration(u), at second precision.
C6_Normalizes ==
    (pc = "time_out" /\ WellFormed) =>
        /\ parsed.kind = "ts"
        /\ parsed.ts = StampBefore(now, IntOf(parts.mag),
                                   DurationSeconds(Lower(parts.word)))

\* the text is empty, has no integer followed by a supported unit, or has a
\* fractional magnitude
Unsupported ==
    \/ text = <<>>
    \/ parts.mag = <<>>
    \/ Lower(parts.word) \notin SupportedWords
    \/ parts.pre = <<"3", ".">>

\* C7: for unsupported text the normalizer returns None, never a timestamp.
C7_UnsupportedIsNone ==
    (pc = "time_out" /\ Unsupported) => parsed.kind = "none"

----------------------------------------------------------------------------
(* Properties: the extraction                                              *)

Extracted == pc = "extract_out"

RawHrefs == { raw[i].href : i \in 1..Len(raw) }

\* the anchor at i is the first of the document with its href
FirstOfHref(i) == \A j \in 1..(i - 1) : dom[j].href # dom[i].href

\* the anchor at i yields a candidate: first with its href, and titled
Story(i) == FirstOfHref(i) /\ TitleOfAnchor(dom[i]) # <<>>

AnchorsA == { i \in 1..Len(dom) : MatchesA(dom[i].href, topic) }

AnchorsB == { i \in 1..Len(dom) : MatchesB(dom[i].href) }

\* C8 as stated: the candidates come from strategy A's anchors whenever A
\* matches at least one anchor, from strategy B's only when A matches none.
C8_StrategyByAnchorSet ==
    Extracted =>
        /\ AnchorsA # {} => \A h \in RawHrefs : MatchesA(h, topic)
        /\ AnchorsA = {} => \A h \in RawHrefs : MatchesB(h)

\* C8 amended: the candidates come from strategy A's anchors whenever one
\* of them yields a candidate, and otherwise from strategy B's; the two are
\* never merged; and when A matches nothing and B matches three story
\* anchors, exactly those three are returned, in document order.
C8_StrategyByResult ==
    Extracted =>
        /\ (\E i \in AnchorsA : Story(i)) =>
               /\ \A h \in RawHrefs : MatchesA(h, topic)
               /\ \A i \in AnchorsA : Story(i) => dom[i].href \in RawHrefs
        /\ ~(\E i \in AnchorsA : Story(i)) =>
               /\ \A h \in RawHrefs : MatchesB(h)
               /\ \A i \in AnchorsB : Story(i) => dom[i].href \in RawHrefs
        /\ ~(\E g, h \in RawHrefs : MatchesA(g, topic) /\ ~MatchesA(h, topic))
        /\ (AnchorsA = {} /\ Cardinality(AnchorsB) = 3
                /\ \A i \in AnchorsB : Story(i)) =>
               /\ Len(raw) = 3
               /\ \A k \in 1..3 : \E i \in AnchorsB :
                      /\ raw[k].href = dom[i].href
                      /\ Cardinality({j \in AnchorsB : j <= i}) = k

\* strategy A matched nothing, B matched three story anchors, three returned
C8_Witness ==
    /\ Extracted
    /\ AnchorsA = {}
    /\ Cardinality(AnchorsB) = 3
    /\ \A i \in AnchorsB : Story(i)
    /\ Len(raw) = 3

----------------------------------------------------------------------------
(* Properties: the records                                                 *)

TopicSet == { topics[i] : i \in 1..Len(topics) }

\* C9: in a cache the run wrote, every story carries a topic of the fixed
\* set, topics[t] holds only records of topic t, and every story appears in
\* exactly one bucket of topics.
C9_TopicPartition ==
    Finished =>
        LET b == cache.body
        IN  /\ \A i \in 1..Len(b.stories) :
                   /\ "topic" \in DOMAIN b.stories[i]
                   /\ b.stories[i].topic \in TopicSet
            /\ "topics" \in DOMAIN b
            /\ \A t \in TopicSet : \A k \in 1..Len(b.topics[t]) :
                   b.topics[t][k].topic = t
            /\ \A i \in 1..Len(b.stories) :
                   Cardinality({ t \in TopicSet :
                       \E k \in 1..Len(b.topics[t]) :
                           b.topics[t][k] = b.stories[i] }) = 1

Built == pc = "build_out"

\* C10: every record build_stories returns has a non-empty title, a
\* non-empty url and a pubDate that is a timestamp, never null.
C10_RecordInvariant ==
    Built =>
        \A i \in 1..Len(stories) :
            /\ stories[i].title # <<>>
            /\ stories[i].url # <<>>
            /\ stories[i].pubDate.kind = "ts"

\* a list of which one item was skipped and one kept with the staggered
\* fallback as its pubDate
C10_Witness ==
    /\ Built
    /\ \E i \in 1..Len(raw) : Skipped(raw[i])
    /\ \E i \in 1..Len(raw) :
           /\ ~Skipped(raw[i])
           /\ parse_relative_time(raw[i].timeText, now).kind = "none"
    /\ Len(stories) >= 1

----------------------------------------------------------------------------
(* Properties: the staggered fallback                                      *)

\* a formatted stamp is not later than another (field by field, as the
\* fixed-width text compares)
StampLeq(a, b) ==
    \/ a = b
    \/ \E k \in 1..6 : (\A j \in 1..(k - 1) : a[j] = b[j]) /\ a[k] < b[k]

\* the positions among the first `limit` of the raw list whose item is kept
Kept == { i \in 1..Len(raw) : i <= limit /\ ~Skipped(raw[i]) }

\* the position in the raw list of the k-th kept item
PosOf(k) == CHOOSE i \in Kept : Cardinality({ j \in Kept : j < i }) = k - 1

\* the time text of the item is not a relative time
Unresolved(item) == parse_relative_time(item.timeText, now).kind = "none"

NoneResolvable == \A i \in 1..Len(raw) : Unresolved(raw[i])

\* C11: for a list without a resolvable time text the pubDate values are
\* fixed by the instant and the list alone (the first record carries the
\* stamp of the instant minus a multiple of five minutes that the list
\* determines, so two invocations at one instant agree) and they never
\* increase with the record index.
C11_StaggerDeterministic ==
    (Built /\ NoneResolvable) =>
        /\ \A k \in 1..Len(stories) :
               \E m \in 0..(limit - 1) :
                   stories[k].pubDate.ts = StampBefore(now, m * StaggerMinutes, 60)
        /\ \A k \in 1..(Len(stories) - 1) :
               StampLeq(stories[k + 1].pubDate.ts, stories[k].pubDate.ts)

\* three records or more, all with the fallback stamp
C11_Witness ==
    /\ Built
    /\ NoneResolvable
    /\ Len(stories) >= 3

----------------------------------------------------------------------------
(* Properties: the attempt loop                                            *)

Returned == pc = "build"

\* C12: fetch_topic navigates at most max_retries times; a non-empty result
\* is the candidate set of the attempt that was running, returned without a
\* further navigation; an empty result is returned only after max_retries
\* attempts.
C12_RetryBound ==
    /\ navs <= max_retries
    /\ (Returned /\ raw # <<>>) =>
           /\ navs = attempt
           /\ raw = ExtractOnce(dom, topic)
    /\ (Returned /\ raw = <<>>) =>
           /\ navs = max_retries
           /\ attempt = max_retries

\* the second attempt succeeded after a first one without a result
C12_Witness ==
    /\ Returned
    /\ raw # <<>>
    /\ attempt = 2
    /\ navs = 2

\* C13: in an attempt whose navigation succeeded, the content wait and the
\* scroll-and-delay step always lead on to the extraction: the attempt never
\* ends from there without the extractor having been invoked.
C13_WaitsNeverFatal ==
    [][(pc = "fetch" /\ fpc \in {"wait", "scroll"})
          => fpc' \in {"wait", "scroll", "extract"}]_vars

\* C14: when attempt k+1 starts navigating, the latest wait was the backoff
\* of attempt k, of exactly k * 3000 ms.
C14_LinearBackoff ==
    (pc = "fetch" /\ fpc = "goto" /\ attempt > 1) =>
        lastWait = (attempt - 1) * 3000

\* the third attempt is about to navigate after a backoff of 6000 ms
C14_Witness ==
    /\ pc = "fetch"
    /\ fpc = "goto"
    /\ attempt = 3
    /\ lastWait = 6000

\* C15: no backoff wait is made for the last attempt: a wait of
\* max_retries * 3000 ms never happens.
C15_NoBackoffAfterLast ==
    attempt = max_retries => lastWait # max_retries * 3000

\* C16: every call of fetch_topic returns to main, and the run gets past the
\* last topic.
C16_Terminates ==
    /\ (pc = "fetch") ~> (pc = "build")
    /\ (pc = "fetch") ~> (pc = "close")

----------------------------------------------------------------------------
(* Properties: the index of the stagger and the cap                        *)

\* C17: the fallback of a kept record is the instant minus five
\* minutes times its zero-based position among the kept records.
C17_IndexAmongKept ==
    Built =>
        \A k \in 1..Len(stories) :
            Unresolved(raw[PosOf(k)]) =>
                stories[k].pubDate.ts =
                    StampBefore(now, (k - 1) * StaggerMinutes, 60)

\* the positions of the whole raw list whose item passes the filter
Valid == { i \in 1..Len(raw) : ~Skipped(raw[i]) }

\* C18: the result is the first `limit` candidates that pass the
\* filter, so its length is min(limit, number of valid candidates).
C18_FirstValidUpToLimit ==
    Built =>
        Len(stories) =
            (IF Cardinality(Valid) < limit THEN Cardinality(Valid) ELSE limit)

----------------------------------------------------------------------------
(* Properties: duplicates and short titles                                 *)

\* C19: no two candidates of one extraction pass resolve to the same
\* absolute URL.
C19_DedupByResolvedUrl ==
    Extracted =>
        \A i, j \in 1..Len(raw) : i # j => UrlOf(raw[i]) # UrlOf(raw[j])

\* C20: no candidate fetch_topic returns and no story of a written cache
\* has a title of ten characters or fewer.
C20_NoShortTitles ==
    /\ Returned => \A i \in 1..Len(raw) : Len(raw[i].title) > 10
    /\ Finished =>
           \A i \in 1..Len(cache.body.stories) :
               Len(cache.body.stories[i].title) > 10

====
